---- MODULE Spec2Model ----
(***************************************************************************)
(* The photo catalog of photoshare: defaultPhotoManager (Insert, Delete,   *)
(* UpdateTags, Get, GetDetail, Search, All), the Photo hooks and the       *)
(* permission predicates, over a relational store with a photo table and   *)
(* a photo-tag association.                                                *)
(*                                                                         *)
(* Strings are sequences of one-character strings, so that trimming,       *)
(* case folding, splitting and substring matching are computed.            *)
(***************************************************************************)
EXTENDS Integers, Sequences, FiniteSets, TLC

VARIABLES photos,     \* photo table: ID -> row
          photoTags,  \* photo_tags joined with tags: set of <<photo ID, tag name>>
          nextID,     \* the photo table's ID sequence
          nextFile,   \* the storage collaborator's next generated filename
          now,        \* the wall clock read by PreInsert
          openTx,     \* transactions begun and neither committed nor rolled back
          files,      \* backing files present in the file store
          cleaning,   \* filenames handed to a launched, not yet run, photoCleaner.Clean
          pc,         \* position of the request inside Insert / Delete
          cur,        \* the *Photo the running Insert / Delete was called with
          ret         \* what the last finished operation returned

vars == <<photos, photoTags, nextID, nextFile, now, openTx, files, cleaning, pc, cur, ret>>

----------------------------------------------------------------------------
(* Bounds *)

MaxPhotos == 2
MaxTime == 1
MaxOpenTx == 2
MaxTags == 3
MaxQueryLen == 4
MaxTokens == 8
MaxVotes == 1
MaxPage == 2

PageSize == 12

----------------------------------------------------------------------------
(* Strings *)

Lower(c) == CASE c = "A" -> "a" [] c = "B" -> "b" [] OTHER -> c
Upper(c) == CASE c = "a" -> "A" [] c = "b" -> "B" [] OTHER -> c

ToLower(s) == [i \in 1..Len(s) |-> Lower(s[i])]
ToUpper(s) == [i \in 1..Len(s) |-> Upper(s[i])]

IsSpace(c) == c = " "

RECURSIVE TrimLeft(_)
TrimLeft(s) == IF s # <<>> /\ IsSpace(Head(s)) THEN TrimLeft(Tail(s)) ELSE s

RECURSIVE TrimRight(_)
TrimRight(s) ==
    IF s # <<>> /\ IsSpace(s[Len(s)]) THEN TrimRight(SubSeq(s, 1, Len(s) - 1)) ELSE s

TrimSpace(s) == TrimRight(TrimLeft(s))

\* strings.Split(q, " "): the pieces between the separators, empty pieces kept
RECURSIVE SplitFrom(_, _, _)
SplitFrom(s, i, piece) ==
    IF i > Len(s) THEN <<piece>>
    ELSE IF s[i] = " " THEN <<piece>> \o SplitFrom(s, i + 1, <<>>)
    ELSE SplitFrom(s, i + 1, Append(piece, s[i]))

Split(s) == SplitFrom(s, 1, <<>>)

\* x LIKE '%w%'
Contains(s, w) ==
    \E i \in 0..(Len(s) - Len(w)) : SubSeq(s, i + 1, i + Len(w)) = w

Range(s) == {s[i] : i \in DOMAIN s}

----------------------------------------------------------------------------
(* The store *)

UserIDs == 1..2

NoPhoto == [ID |-> 0]

TagsOf(pt, id) == {t[2] : t \in {x \in pt : x[1] = id}}

\* Input tag strings: "", "a", " B"
TagStrings == {<<>>, <<"a">>, <<" ", "B">>}

SeqsUpTo(S, n) == UNION {[1..k -> S] : k \in 0..n}

TagLists == SeqsUpTo(TagStrings, MaxTags)

----------------------------------------------------------------------------
(* UpdateTags *)

\* The loop of UpdateTags; i is Go's 0-based index into photo.Tags
RECURSIVE TagLoop(_, _, _)
TagLoop(tags, i, acc) ==
    IF i >= Len(tags) THEN acc
    ELSE LET name == TrimSpace(tags[i + 1]) IN
         IF name # <<>>
         THEN TagLoop(tags, i + 1,
                      [args    |-> Append(acc.args, i + 2),
                       params  |-> Append(acc.params, ToLower(name)),
                       isEmpty |-> FALSE])
         ELSE TagLoop(tags, i + 1, acc)

\* A statement is accepted when every placeholder $n it names is bound
BindOk(args, params) == \A n \in Range(args) : n \in 1..Len(params)

\* DELETE FROM photo_tags WHERE photo_id=$1
ClearTags(pt, id) == {x \in pt : x[1] # id}

\* The store's add_tags(photo_id, names...): upsert the tags, rewrite the associations
AddTags(pt, id, names) == ClearTags(pt, id) \cup {<<id, n>> : n \in Range(names)}

\* UpdateTags(photo) against associations pt; storeOk: the store executes the statement
UpdateTags(photo, pt, storeOk) ==
    LET l == TagLoop(photo.Tags, 0,
                     [args |-> <<1>>, params |-> <<photo.ID>>, isEmpty |-> TRUE])
    IN  IF l.isEmpty /\ photo.ID # 0
        THEN IF storeOk THEN [err |-> FALSE, photoTags |-> ClearTags(pt, photo.ID)]
                        ELSE [err |-> TRUE, photoTags |-> pt]
        ELSE IF storeOk /\ BindOk(l.args, l.params)
             THEN [err |-> FALSE,
                   photoTags |-> AddTags(pt, l.params[1], Tail(l.params))]
             ELSE [err |-> TRUE, photoTags |-> pt]

----------------------------------------------------------------------------
(* Insert, Delete, UpdateTags and the cleaner, step by step *)

Init ==
    /\ photos = <<>>
    /\ photoTags = {}
    /\ nextID = 1
    /\ nextFile = 1
    /\ now = 0
    /\ openTx = 0
    /\ files = {}
    /\ cleaning = {}
    /\ pc = "idle"
    /\ cur = NoPhoto
    /\ ret = [op |-> "none"]

Return(op, step, id) ==
    /\ pc' = "returned"
    /\ cur' = NoPhoto
    /\ ret' = [op |-> op, err |-> step # "", step |-> step, id |-> id]

\* The calling handler has served the result; the next request may call
Respond ==
    /\ pc = "returned"
    /\ pc' = "idle"
    /\ ret' = [op |-> "none"]
    /\ UNCHANGED <<photos, photoTags, nextID, nextFile, now, openTx, files, cleaning, cur>>

\* Insert is called (the upload handler has stored the file); dbMap.Begin()
InsertBegin ==
    /\ pc = "idle"
    /\ nextFile <= MaxPhotos
    /\ \E owner \in UserIDs, tags \in TagLists, ok \in BOOLEAN :
         /\ ok => openTx < MaxOpenTx
         /\ files' = files \cup {nextFile}
         /\ nextFile' = nextFile + 1
         /\ IF ok
            THEN /\ openTx' = openTx + 1
                 /\ pc' = "ins_row"
                 /\ cur' = [ID |-> 0, OwnerID |-> owner, CreatedAt |-> 0,
                            Title |-> <<"a">>, Filename |-> nextFile, Tags |-> tags,
                            UpVotes |-> 0, DownVotes |-> 0]
                 /\ ret' = ret
            ELSE /\ openTx' = openTx
                 /\ Return("Insert", "begin", 0)
    /\ UNCHANGED <<photos, photoTags, nextID, now, cleaning>>

Row(p) == [ID |-> p.ID, OwnerID |-> p.OwnerID, CreatedAt |-> p.CreatedAt,
           Title |-> p.Title, Filename |-> p.Filename,
           UpVotes |-> p.UpVotes, DownVotes |-> p.DownVotes]

\* PreInsert stamps the time; dbMap.Insert(photo) runs on dbMap, not on t
InsertRow ==
    /\ pc = "ins_row"
    /\ \E t \in now..MaxTime, ok \in BOOLEAN :
         /\ t <= now + 1
         /\ now' = t
         /\ IF ok
            THEN LET p == [cur EXCEPT !.ID = nextID, !.CreatedAt = t] IN
                 /\ photos' = (nextID :> Row(p)) @@ photos
                 /\ nextID' = nextID + 1
                 /\ cur' = p
                 /\ pc' = "ins_tags"
                 /\ ret' = ret
            ELSE /\ Return("Insert", "row", 0)
                 /\ UNCHANGED <<photos, nextID>>
    /\ UNCHANGED <<photoTags, nextFile, openTx, files, cleaning>>

\* mgr.UpdateTags(photo) inside Insert
InsertTags ==
    /\ pc = "ins_tags"
    /\ \E ok \in BOOLEAN :
         LET r == UpdateTags(cur, photoTags, ok) IN
         /\ photoTags' = r.photoTags
         /\ IF r.err
            THEN Return("Insert", "tags", cur.ID)
            ELSE /\ pc' = "ins_commit"
                 /\ UNCHANGED <<cur, ret>>
    /\ UNCHANGED <<photos, nextID, nextFile, now, openTx, files, cleaning>>

\* t.Commit(): the transaction ends whether the commit succeeds or not
InsertCommit ==
    /\ pc = "ins_commit"
    /\ openTx' = openTx - 1
    /\ \E ok \in BOOLEAN : Return("Insert", IF ok THEN "" ELSE "commit", cur.ID)
    /\ UNCHANGED <<photos, photoTags, nextID, nextFile, now, files, cleaning>>

\* Delete(photo) is called with a photo the handler has loaded; dbMap.Begin()
DeleteBegin ==
    /\ pc = "idle"
    /\ \E id \in DOMAIN photos, ok \in BOOLEAN :
         /\ ok => openTx < MaxOpenTx
         /\ IF ok
            THEN /\ openTx' = openTx + 1
                 /\ pc' = "del_row"
                 /\ cur' = photos[id]
                 /\ ret' = ret
            ELSE /\ openTx' = openTx
                 /\ Return("Delete", "begin", id)
    /\ UNCHANGED <<photos, photoTags, nextID, nextFile, now, files, cleaning>>

\* Photo.PreDelete: go photoCleaner.Clean(photo.Filename)
PreDelete(photo) == cleaning' = cleaning \cup {photo.Filename}

\* dbMap.Delete(photo): the PreDelete hook, then the DELETE statement, on dbMap
DeleteRow ==
    /\ pc = "del_row"
    /\ PreDelete(cur)
    /\ \E ok \in BOOLEAN :
         IF ok
         THEN /\ photos' = [i \in DOMAIN photos \ {cur.ID} |-> photos[i]]
              /\ photoTags' = ClearTags(photoTags, cur.ID)
              /\ pc' = "del_commit"
              /\ UNCHANGED <<cur, ret>>
         ELSE /\ Return("Delete", "row", cur.ID)
              /\ UNCHANGED <<photos, photoTags>>
    /\ UNCHANGED <<nextID, nextFile, now, openTx, files>>

DeleteCommit ==
    /\ pc = "del_commit"
    /\ openTx' = openTx - 1
    /\ \E ok \in BOOLEAN : Return("Delete", IF ok THEN "" ELSE "commit", cur.ID)
    /\ UNCHANGED <<photos, photoTags, nextID, nextFile, now, files, cleaning>>

\* photoCleaner.Clean(filename), the goroutine launched by PreDelete
Clean ==
    /\ \E f \in cleaning :
         /\ cleaning' = cleaning \ {f}
         /\ files' = files \ {f}
    /\ UNCHANGED <<photos, photoTags, nextID, nextFile, now, openTx, pc, cur, ret>>

\* UpdateTags(photo) called by the tag-editing handler on a loaded photo
UpdateTagsCall ==
    /\ pc = "idle"
    /\ \E id \in DOMAIN photos, tags \in TagLists, ok \in BOOLEAN :
         LET r == UpdateTags([ID |-> id, Tags |-> tags], photoTags, ok) IN
         /\ photoTags' = r.photoTags
         /\ ret' = [op |-> "UpdateTags", err |-> r.err, storeOk |-> ok,
                    id |-> id, tags |-> tags]
    /\ pc' = "returned"
    /\ UNCHANGED <<photos, nextID, nextFile, now, openTx, files, cleaning, cur>>

Next ==
    \/ InsertBegin
    \/ InsertRow
    \/ InsertTags
    \/ InsertCommit
    \/ DeleteBegin
    \/ DeleteRow
    \/ DeleteCommit
    \/ UpdateTagsCall
    \/ Clean
    \/ Respond

Spec == Init /\ [][Next]_vars

----------------------------------------------------------------------------
(* Stores the program can hold, for the operations that only read or that   *)
(* act in one call                                                          *)

PhotoIDs == 1..MaxPhotos

\* Normalized tag names, as UpdateTags persists them
TagNames == {<<"a">>, <<"b">>}

MkRow(id, owner, created, title, up, down) ==
    [ID |-> id, OwnerID |-> owner, CreatedAt |-> created, Title |-> title,
     Filename |-> id, UpVotes |-> up, DownVotes |-> down]

\* No request in flight, no transaction open, the files of the rows present;
\* n photos have been inserted so far
AtRest(n, t) ==
    /\ nextID = n + 1
    /\ nextFile = n + 1
    /\ now = t
    /\ openTx = 0
    /\ files = DOMAIN photos
    /\ cleaning = {}
    /\ pc = "idle"
    /\ cur = NoPhoto
    /\ ret = [op |-> "none"]

InitTags ==
    /\ \E n \in 1..MaxPhotos :
         /\ photos = [id \in 1..n |-> MkRow(id, 1, 0, <<"a">>, 0, 0)]
         /\ photoTags \in SUBSET ((1..n) \X TagNames)
         /\ AtRest(n, MaxTime)

NextTags ==
    \/ UpdateTagsCall
    \/ Respond

SpecTags == InitTags /\ [][NextTags]_vars

----------------------------------------------------------------------------
(* Permissions, Get, GetDetail *)

\* users.name
UserName(u) == IF u = 1 THEN <<"a">> ELSE <<"A", "b">>

\* A nil *User
NilUser == [nil |-> TRUE, ID |-> 0, IsAuthenticated |-> FALSE, IsAdmin |-> FALSE,
            Votes |-> {}]

Callers ==
    {NilUser} \cup
    [nil : {FALSE}, ID : UserIDs, IsAuthenticated : BOOLEAN, IsAdmin : BOOLEAN,
     Votes : SUBSET PhotoIDs]

\* User.HasVoted(photoID)
HasVoted(user, photoID) == photoID \in user.Votes

CanEditOwnerOnly(photo, user) ==
    IF user.nil \/ ~user.IsAuthenticated THEN FALSE
    ELSE photo.OwnerID = user.ID

CanEdit(photo, user) ==
    IF user.nil \/ ~user.IsAuthenticated THEN FALSE
    ELSE user.IsAdmin \/ photo.OwnerID = user.ID

CanDelete(photo, user) == CanEdit(photo, user)

CanVote(photo, user) ==
    IF user.nil \/ ~user.IsAuthenticated THEN FALSE
    ELSE IF photo.OwnerID = user.ID THEN FALSE
    ELSE ~HasVoted(user, photo.ID)

\* Get(photoID): ok is whether the store executes the lookup
Get(ph, id, ok) ==
    IF ~ok THEN [isNil |-> FALSE, err |-> TRUE, obj |-> NoPhoto]
    ELSE IF id \notin DOMAIN ph THEN [isNil |-> TRUE, err |-> FALSE, obj |-> NoPhoto]
    ELSE [isNil |-> FALSE, err |-> FALSE, obj |-> ph[id]]

NoPerms == [set |-> FALSE]

GetDetailNoRowsIsError(ph, pt, id, user, ok1, ok2) ==
    IF ~ok1 \/ id \notin DOMAIN ph
    THEN [isNil |-> TRUE, err |-> TRUE, obj |-> NoPhoto, perms |-> NoPerms]
    ELSE [isNil |-> FALSE, err |-> ~ok2, obj |-> ph[id], perms |-> NoPerms]

\* GetDetail(photoID, user): ok1, ok2 are whether the store executes the photo
\* query and the tag query
GetDetail(ph, pt, id, user, ok1, ok2) ==
    IF ~ok1
    THEN [isNil |-> TRUE, err |-> TRUE, obj |-> NoPhoto, perms |-> NoPerms]
    ELSE IF id \notin DOMAIN ph     \* sql.ErrNoRows
    THEN [isNil |-> TRUE, err |-> FALSE, obj |-> NoPhoto, perms |-> NoPerms]
    ELSE LET photo == [row |-> ph[id], OwnerName |-> UserName(ph[id].OwnerID),
                       Tags |-> {}]
         IN  IF ~ok2
             THEN [isNil |-> FALSE, err |-> TRUE, obj |-> photo, perms |-> NoPerms]
             ELSE [isNil |-> FALSE, err |-> FALSE,
                   obj |-> [photo EXCEPT !.Tags = TagsOf(pt, id)],
                   perms |-> [set |-> TRUE,
                              Edit |-> CanEdit(ph[id], user),
                              Delete |-> CanDelete(ph[id], user),
                              Vote |-> CanVote(ph[id], user)]]

InitRead ==
    /\ \E n \in 0..MaxPhotos :
         /\ \E owner \in [1..n -> UserIDs] :
              photos \in {[id \in D |-> MkRow(id, owner[id], 0, <<"a">>, 0, 0)] :
                            D \in SUBSET (1..n)}
         /\ photoTags \in SUBSET ((DOMAIN photos) \X {<<"a">>})
         /\ AtRest(n, MaxTime)

GetCall ==
    /\ pc = "idle"
    /\ \E id \in 1..(MaxPhotos + 1), ok \in BOOLEAN :
         LET r == Get(photos, id, ok) IN
         ret' = [op |-> "Get", id |-> id, failed |-> ~ok,
                 isNil |-> r.isNil, err |-> r.err, obj |-> r.obj]
    /\ pc' = "returned"
    /\ UNCHANGED <<photos, photoTags, nextID, nextFile, now, openTx, files, cleaning, cur>>

GetDetailCall ==
    /\ pc = "idle"
    /\ \E id \in 1..(MaxPhotos + 1), user \in Callers, ok1 \in BOOLEAN, ok2 \in BOOLEAN :
         LET r == GetDetail(photos, photoTags, id, user, ok1, ok2) IN
         /\ (id \notin DOMAIN photos \/ ~ok1) => ok2   \* the tag query is not reached
         /\ ret' = [op |-> "GetDetail", id |-> id, user |-> user,
                    failed |-> ~ok1 \/ ~ok2,
                    isNil |-> r.isNil, err |-> r.err, obj |-> r.obj, perms |-> r.perms]
    /\ pc' = "returned"
    /\ UNCHANGED <<photos, photoTags, nextID, nextFile, now, openTx, files, cleaning, cur>>

NextRead ==
    \/ GetCall
    \/ GetDetailCall
    \/ Respond

SpecRead == InitRead /\ [][NextRead]_vars

----------------------------------------------------------------------------
(* Listings: paging and ordering *)

getOffset(pageNum) == (pageNum - 1) * PageSize

NewPhotoList(rows, total, page) ==
    [Photos |-> rows, Total |-> total, CurrentPage |-> page,
     NumPages |-> (total + PageSize - 1) \div PageSize]

Score(r) == r.UpVotes - r.DownVotes

Perms(S) ==
    {s \in [1..Cardinality(S) -> S] : \A i, j \in DOMAIN s : i # j => s[i] # s[j]}

\* ORDER BY (up_votes - down_votes) DESC, created_at DESC: the orders it allows
ByVotesThenCreated(ph, ids) ==
    {s \in Perms(ids) :
        \A i, j \in DOMAIN s :
            i < j => \/ Score(ph[s[i]]) > Score(ph[s[j]])
                     \/ /\ Score(ph[s[i]]) = Score(ph[s[j]])
                        /\ ph[s[i]].CreatedAt >= ph[s[j]].CreatedAt}

\* ORDER BY <one key> DESC: rows with equal keys come in any order
ByVotes(ph, ids) ==
    {s \in Perms(ids) :
        \A i, j \in DOMAIN s : i < j => Score(ph[s[i]]) >= Score(ph[s[j]])}

ByCreated(ph, ids) ==
    {s \in Perms(ids) :
        \A i, j \in DOMAIN s : i < j => ph[s[i]].CreatedAt >= ph[s[j]].CreatedAt}

\* LIMIT limit OFFSET offset over an ordered row list
Window(ph, order, limit, offset) ==
    LET last == IF offset + limit < Len(order) THEN offset + limit ELSE Len(order)
    IN  [i \in 1..(last - offset) |-> ph[order[offset + i]]]

Pages == 1..MaxPage

Failure == [isNil |-> TRUE, err |-> TRUE]

\* All(pageNum, orderBy): the results the store may give; okCount, okSelect are
\* whether it executes the two queries
All(ph, pageNum, orderBy, okCount, okSelect) ==
    LET orders == IF orderBy = "votes" THEN ByVotes(ph, DOMAIN ph)
                                       ELSE ByCreated(ph, DOMAIN ph)
        total == Cardinality(DOMAIN ph)
    IN  IF ~okCount \/ ~okSelect THEN {Failure}
        ELSE {[isNil |-> FALSE, err |-> FALSE,
               list |-> NewPhotoList(Window(ph, o, PageSize, getOffset(pageNum)),
                                     total, pageNum)] : o \in orders}

----------------------------------------------------------------------------
(* Search *)

\* The loop of Search over strings.Split(q, " "); num is Go's 0-based index.
\* Each kept word becomes the parameter of one clause.
RECURSIVE SearchLoop(_, _, _)
SearchLoop(words, num, params) ==
    IF num >= Len(words) THEN params
    ELSE LET word == TrimSpace(words[num + 1]) IN
         IF word = <<>> \/ num > 6 THEN params
         ELSE SearchLoop(words, num + 1, Append(params, word))

\* UPPER(p.title) LIKE UPPER(%w%) OR UPPER(u.name) LIKE UPPER(%w%) OR t.name LIKE %w%
ClauseMatches(row, pt, w) ==
    \/ Contains(ToUpper(row.Title), ToUpper(w))
    \/ Contains(ToUpper(UserName(row.OwnerID)), ToUpper(w))
    \/ \E t \in TagsOf(pt, row.ID) : Contains(t, w)

\* The INTERSECT of the clauses
Intersect(ph, pt, params) ==
    {id \in DOMAIN ph : \A k \in DOMAIN params : ClauseMatches(ph[id], pt, params[k])}

\* Search(pageNum, q): the results the store may give
Search(ph, pt, pageNum, q, okCount, okSelect) ==
    IF q = <<>> THEN {[isNil |-> TRUE, err |-> FALSE]}
    ELSE LET params == SearchLoop(Split(q), 0, <<>>)
             ids == Intersect(ph, pt, params)
         IN  IF params = <<>> \/ ~okCount \/ ~okSelect    \* "FROM () q" is no statement
             THEN {Failure}
             ELSE {[isNil |-> FALSE, err |-> FALSE,
                    list |-> NewPhotoList(
                                 Window(ph, o, PageSize, getOffset(pageNum)),
                                 Cardinality(ids), pageNum)] :
                       o \in ByVotesThenCreated(ph, ids)}

Titles == {<<"a">>, <<"B", "a">>}

RECURSIVE Join(_)
Join(ws) == IF Len(ws) = 0 THEN <<>>
            ELSE IF Len(ws) = 1 THEN ws[1]
            ELSE ws[1] \o <<" ">> \o Join(Tail(ws))

\* Every query of at most MaxQueryLen characters, and the queries of seven to
\* MaxTokens one-letter words
Queries ==
    SeqsUpTo({"a", "B", " "}, MaxQueryLen)
    \cup {Join(ws) : ws \in UNION {[1..n -> {<<"a">>, <<"B">>}] : n \in 7..MaxTokens}}

InitSearch ==
    /\ \E n \in 1..MaxPhotos :
         /\ \E owner \in [1..n -> UserIDs], title \in [1..n -> Titles] :
              photos = [id \in 1..n |-> MkRow(id, owner[id], id, title[id], 0, 0)]
         /\ photoTags \in SUBSET ((1..n) \X {<<"b">>})
         /\ AtRest(n, n)

SearchCall ==
    /\ pc = "idle"
    /\ \E q \in Queries, page \in Pages, ok1 \in BOOLEAN, ok2 \in BOOLEAN :
         /\ ~ok1 => ok2
         /\ \E r \in Search(photos, photoTags, page, q, ok1, ok2) :
              ret' = [op |-> "Search", q |-> q, page |-> page,
                      failed |-> ~ok1 \/ ~ok2, res |-> r]
    /\ pc' = "returned"
    /\ UNCHANGED <<photos, photoTags, nextID, nextFile, now, openTx, files, cleaning, cur>>

NextSearch ==
    \/ SearchCall
    \/ Respond

SpecSearch == InitSearch /\ [][NextSearch]_vars

InitAll ==
    /\ \E n \in 1..MaxPhotos :
         /\ \E created \in [1..n -> 0..MaxTime], up \in [1..n -> 0..MaxVotes],
               down \in [1..n -> 0..MaxVotes] :
              photos = [id \in 1..n |-> MkRow(id, 1, created[id], <<"a">>, up[id], down[id])]
         /\ photoTags = {}
         /\ AtRest(n, MaxTime)

AllCall ==
    /\ pc = "idle"
    /\ \E orderBy \in {"votes", "", "created_at"}, page \in Pages,
          ok1 \in BOOLEAN, ok2 \in BOOLEAN :
         /\ ~ok1 => ok2
         /\ \E r \in All(photos, page, orderBy, ok1, ok2) :
              ret' = [op |-> "All", orderBy |-> orderBy, page |-> page,
                      failed |-> ~ok1 \/ ~ok2, res |-> r]
    /\ pc' = "returned"
    /\ UNCHANGED <<photos, photoTags, nextID, nextFile, now, openTx, files, cleaning, cur>>

NextAll ==
    \/ AllCall
    \/ Respond

SpecAll == InitAll /\ [][NextAll]_vars

----------------------------------------------------------------------------
(* Claims on Insert, Delete and UpdateTags *)

\* C1: when Insert returns the error of its tag synchronization step, the photo
\* row it inserted is not persisted.
InsertAtomic ==
    (pc = "returned" /\ ret.op = "Insert" /\ ret.step = "tags")
        => ret.id \notin DOMAIN photos

\* The trimmed, non-empty, lowercased entries of a tag list
Normalized(tags) == {ToLower(TrimSpace(t)) : t \in Range(tags)} \ {<<>>}

\* C2: against a healthy store UpdateTags succeeds and leaves the associations of
\* photo.ID equal to the normalized entries of photo.Tags, wherever blank entries
\* stand in the list.
UpdateTagsSyncs ==
    (pc = "returned" /\ ret.op = "UpdateTags" /\ ret.storeOk)
        => /\ ~ret.err
           /\ TagsOf(photoTags, ret.id) = Normalized(ret.tags)

\* C9: whenever Insert or Delete has returned, no transaction is left open.
TxReleased == pc \in {"idle", "returned"} => openTx = 0

\* C10: when Delete returns an error and the photo row is still persisted, no
\* cleanup task for the photo's file has been launched: the file is present and
\* no cleaner holds its name.
FailedDeleteKeepsFile ==
    (pc = "returned" /\ ret.op = "Delete" /\ ret.err /\ ret.id \in DOMAIN photos)
        => /\ photos[ret.id].Filename \notin cleaning
           /\ photos[ret.id].Filename \in files

----------------------------------------------------------------------------
(* Claims on Get, GetDetail and the permissions *)

Authenticated(user) == ~user.nil /\ user.IsAuthenticated

\* C6: edit and delete hold iff the caller is authenticated and is admin or owner;
\* vote holds iff the caller is authenticated, is not the owner and has not voted.
PermissionsPure ==
    (pc = "returned" /\ ret.op = "GetDetail" /\ ret.perms.set)
        => LET u == ret.user
               owns == photos[ret.id].OwnerID = u.ID
           IN  /\ ret.perms.Edit = (Authenticated(u) /\ (u.IsAdmin \/ owns))
               /\ ret.perms.Delete = ret.perms.Edit
               /\ ret.perms.Vote =
                      (Authenticated(u) /\ ~owns /\ ret.id \notin u.Votes)

\* An admin who does not own the photo and has voted on it: edit, not vote
PermissionsWitness ==
    /\ pc = "returned" /\ ret.op = "GetDetail" /\ ret.perms.set
    /\ ret.user.IsAdmin /\ ret.user.IsAuthenticated
    /\ photos[ret.id].OwnerID # ret.user.ID
    /\ ret.id \in ret.user.Votes
    /\ ret.perms.Edit /\ ret.perms.Delete /\ ~ret.perms.Vote

\* C8: with a working store a missing ID gives (nil, nil); a store failure gives a
\* non-nil error; an error is returned only on store failure.
NotFoundDistinct ==
    (pc = "returned" /\ ret.op \in {"Get", "GetDetail"})
        => /\ (~ret.failed /\ ret.id \notin DOMAIN photos) => (ret.isNil /\ ~ret.err)
           /\ ret.failed => ret.err
           /\ ret.err => ret.failed
           /\ (ret.isNil /\ ~ret.err) => ret.id \notin DOMAIN photos

\* GetDetail of a missing ID returned (nil, nil)
NotFoundWitness ==
    /\ pc = "returned" /\ ret.op = "GetDetail"
    /\ ret.id \notin DOMAIN photos
    /\ ret.isNil /\ ~ret.err

----------------------------------------------------------------------------
(* Claims on Search and All *)

NonEmpty(w) == w # <<>>

IDsOf(rows) == {rows[i].ID : i \in DOMAIN rows}

\* C3: a query of seven or more single-space-separated non-empty tokens gives the
\* result of the query made of its first six tokens.
SearchCapsAtSix ==
    (pc = "returned" /\ ret.op = "Search" /\ ~ret.failed)
        => LET words == Split(ret.q) IN
           (Len(words) >= 7 /\ \A i \in DOMAIN words : NonEmpty(words[i]))
               => ret.res \in Search(photos, photoTags, ret.page,
                                     Join(SubSeq(words, 1, 6)), TRUE, TRUE)

\* C4: a photo is in the result iff it satisfies the clause of every non-empty
\* token of the query, empty tokens being skipped (queries of at most six
\* non-empty tokens, which no cap touches).
SearchSkipsEmptyTokens ==
    (pc = "returned" /\ ret.op = "Search" /\ ~ret.failed)
        => LET tokens == SelectSeq(Split(ret.q), NonEmpty) IN
           (Len(tokens) >= 1 /\ Len(tokens) <= 6)
               => /\ ~ret.res.err
                  /\ ret.res.list.Total =
                        Cardinality(Intersect(photos, photoTags, tokens))
                  /\ ret.page = 1 =>
                        IDsOf(ret.res.list.Photos) = Intersect(photos, photoTags, tokens)

\* The token, ignoring letter case, is a substring of the title, of the owner's
\* name or of a tag's name
FoldMatches(row, pt, w) ==
    \/ Contains(ToLower(row.Title), ToLower(w))
    \/ Contains(ToLower(UserName(row.OwnerID)), ToLower(w))
    \/ \E t \in TagsOf(pt, row.ID) : Contains(ToLower(t), ToLower(w))

\* C5: a one-token query returns exactly the photos whose title, owner name or
\* one of whose tag names contains the token, ignoring letter case.
SearchIgnoresCase ==
    (pc = "returned" /\ ret.op = "Search" /\ ~ret.failed /\ ret.page = 1)
        => LET words == Split(ret.q) IN
           (Len(words) = 1 /\ NonEmpty(words[1]))
               => /\ ~ret.res.err
                  /\ \A id \in DOMAIN photos :
                        id \in IDsOf(ret.res.list.Photos)
                            <=> FoldMatches(photos[id], photoTags, words[1])

\* C7: All(page, "votes") lists by score descending, equal scores newest first;
\* any other orderBy lists by creation time descending.
AllOrdering ==
    (pc = "returned" /\ ret.op = "All" /\ ~ret.failed)
        => LET P == ret.res.list.Photos IN
           \A i, j \in DOMAIN P :
               i < j =>
                   IF ret.orderBy = "votes"
                   THEN \/ Score(P[i]) > Score(P[j])
                        \/ /\ Score(P[i]) = Score(P[j])
                           /\ P[i].CreatedAt >= P[j].CreatedAt
                   ELSE P[i].CreatedAt >= P[j].CreatedAt

====
